---- MODULE Spec2Model ----
(***************************************************************************)
(* A model of the AI Data Storyteller application:                         *)
(*   - the App component (upload -> parse -> analyse -> chat -> playback), *)
(*     its React state, its refs and the asynchronous requests in flight;  *)
(*   - the pure functions analyzeCsvData (prompt sample and truncation     *)
(*     note) and prepareChartData (chart data mapper).                     *)
(* null is modelled by 0 for identities and by "" for the error text.      *)
(***************************************************************************)
EXTENDS Integers, Sequences, FiniteSets, TLC

\* ------------------------------------------------------------------ bounds
MaxFiles == 2      \* file selections (drops / picks) in one run
MaxSends == 2      \* chat sends that reach the Chat Client in one run
MaxPlays == 2      \* play requests in one run

\* --------------------------------------------------------------- constants
SizeLimit == 20 * 1024 * 1024

ERR_SIZE      == "File size exceeds 20MB limit."
ERR_EMPTY     == "CSV file is empty."
ERR_ANALYSIS  == "Failed to perform data analysis"
ERR_NOSESSION == "Please upload and analyze data first."
ERR_SEND      == "Failed to send message"
ERR_AUDIO     == "Failed to play audio"
FALLBACK_TEXT == "I'm sorry, I couldn't generate a response."

\* The files a user can select: an empty file, a file of exactly the size
\* limit, and a file one byte over it.
FileChoices ==
    { [size |-> 0,             blank |-> TRUE],
      [size |-> SizeLimit,     blank |-> FALSE],
      [size |-> SizeLimit + 1, blank |-> FALSE] }

\* What an analysis request can come back with: a rejection (network error or
\* unparseable JSON), the JSON value null, or a parsed object that has all
\* the list fields, lacks keyInsights, or lacks chartParameters.
AnalysisOutcomes == {"error", "null", "full", "noInsights", "noCharts"}

UserTexts == {"q"}
Replies   == {"r"}

VARIABLES
    selectedFile,        \* id of the selected file, 0 = null
    csvData,             \* id of the file the held table was parsed from, 0 = null
    analysisResult,      \* [of: file id, shape], of = 0 is null
    chatMessages,        \* the transcript: sequence of Message
    isLoadingAnalysis,
    isSendingChat,
    error,               \* "" = null
    currentChatSession,  \* id of the analysis the session was seeded with, 0 = null
    outputAudioContext,  \* number of the audio context held, 0 = null
    currentAudioSource,  \* message id of the source held, 0 = null
    playingMessageId,    \* 0 = null
    pendingReads,        \* FileReader loads in flight
    pendingAnalyses,     \* analyzeCsvData requests in flight (file ids)
    pendingSends,        \* sendMessageToChat requests in flight
    pendingPlays,        \* generateSpeech requests in flight (message ids)
    sources,             \* audio sources started whose ended event has not fired
    nFiles, nextId, nSends, nPlays, nContexts,   \* counters
    lastAccepted,        \* history: id of the last file that passed the size check
    call, ret            \* input and output of the pure functions

appVars == <<selectedFile, csvData, analysisResult, chatMessages,
             isLoadingAnalysis, isSendingChat, error, currentChatSession,
             outputAudioContext, currentAudioSource, playingMessageId,
             pendingReads, pendingAnalyses, pendingSends, pendingPlays,
             sources, nFiles, nextId, nSends, nPlays, nContexts, lastAccepted>>
fnVars == <<call, ret>>
vars == <<appVars, fnVars>>

NoResult == [of |-> 0, shape |-> "none"]
NoCall == [fn |-> "none"]

\* ------------------------------------------------------------- App state
AppInit ==
    /\ selectedFile = 0
    /\ csvData = 0
    /\ analysisResult = NoResult
    /\ chatMessages = <<>>
    /\ isLoadingAnalysis = FALSE
    /\ isSendingChat = FALSE
    /\ error = ""
    /\ currentChatSession = 0
    /\ outputAudioContext = 0
    /\ currentAudioSource = 0
    /\ playingMessageId = 0
    /\ pendingReads = {}
    /\ pendingAnalyses = {}
    /\ pendingSends = {}
    /\ pendingPlays = {}
    /\ sources = {}
    /\ nFiles = 0
    /\ nextId = 1
    /\ nSends = 0
    /\ nPlays = 0
    /\ nContexts = 0
    /\ lastAccepted = 0

Init ==
    /\ AppInit
    /\ call = NoCall
    /\ ret = NoCall

\* setChatMessages(prev => prev.map(msg => msg.id === id ? {...msg, isPlaying: b} : msg))
SetPlaying(msgs, id, b) ==
    [i \in DOMAIN msgs |->
        IF msgs[i].id = id THEN [msgs[i] EXCEPT !.isPlaying = b] ELSE msgs[i]]

\* Mutant of RemoveMessage: the rollback keeps the matching message
\* (=== written for !==).
RemoveMessage_KeepOnlyMatch(msgs, id) ==
    SelectSeq(msgs, LAMBDA m : m.id = id)

\* setChatMessages(prev => prev.filter(msg => msg.id !== id))
RemoveMessage(msgs, id) ==
    SelectSeq(msgs, LAMBDA m : m.id # id)

\* The size check of handleFileSelect.
ExceedsLimit(size) == size > SizeLimit

\* handleFileSelect(file): clears the analysis result and the transcript,
\* then rejects an oversize file or starts the FileReader.
HandleFileSelect(file) ==
    /\ nFiles < MaxFiles
    /\ nFiles' = nFiles + 1
    /\ analysisResult' = NoResult
    /\ chatMessages' = <<>>
    /\ IF ExceedsLimit(file.size)
          THEN /\ error' = ERR_SIZE
               /\ selectedFile' = 0
               /\ UNCHANGED <<pendingReads, lastAccepted>>
          ELSE /\ error' = ""
               /\ selectedFile' = nFiles + 1
               /\ pendingReads' = pendingReads \cup
                                    {[id |-> nFiles + 1, blank |-> file.blank]}
               /\ lastAccepted' = nFiles + 1
    /\ UNCHANGED <<csvData, isLoadingAnalysis, isSendingChat, currentChatSession,
                   outputAudioContext, currentAudioSource, playingMessageId,
                   pendingAnalyses, pendingSends, pendingPlays, sources,
                   nextId, nSends, nPlays, nContexts>>

\* Mutant of FileLoaded: the table of a text without lines is stored and
\* analysed like any other.
FileLoaded_NoEmptyCheck(r) ==
    /\ r \in pendingReads
    /\ pendingReads' = pendingReads \ {r}
    /\ csvData' = r.id
    /\ isLoadingAnalysis' = TRUE
    /\ error' = ""
    /\ pendingAnalyses' = pendingAnalyses \cup {r.id}
    /\ UNCHANGED <<selectedFile, analysisResult, chatMessages, isSendingChat,
                   currentChatSession, outputAudioContext, currentAudioSource,
                   playingMessageId, pendingSends, pendingPlays, sources,
                   nFiles, nextId, nSends, nPlays, nContexts, lastAccepted>>

\* reader.onload: parse the text; an input with no non-blank line is rejected,
\* otherwise the table is stored and analyzeAndChat starts (up to its await).
FileLoaded(r) ==
    /\ r \in pendingReads
    /\ pendingReads' = pendingReads \ {r}
    /\ IF r.blank
          THEN /\ error' = ERR_EMPTY
               /\ selectedFile' = 0
               /\ UNCHANGED <<csvData, isLoadingAnalysis, pendingAnalyses>>
          ELSE /\ csvData' = r.id
               /\ isLoadingAnalysis' = TRUE
               /\ error' = ""
               /\ pendingAnalyses' = pendingAnalyses \cup {r.id}
               /\ UNCHANGED selectedFile
    /\ UNCHANGED <<analysisResult, chatMessages, isSendingChat, currentChatSession,
                   outputAudioContext, currentAudioSource, playingMessageId,
                   pendingSends, pendingPlays, sources,
                   nFiles, nextId, nSends, nPlays, nContexts, lastAccepted>>

\* analyzeAndChat after its await, for each way analyzeCsvData can come back.
\* A parsed object is stored before its fields are read: reading
\* keyInsights.join of an object without keyInsights throws after the store.
AnalysisDone(a, outcome) ==
    /\ a \in pendingAnalyses
    /\ pendingAnalyses' = pendingAnalyses \ {a}
    /\ isLoadingAnalysis' = FALSE
    /\ CASE outcome = "error" ->
               /\ error' = ERR_ANALYSIS
               /\ UNCHANGED <<analysisResult, currentChatSession, chatMessages>>
         [] outcome = "null" ->
               /\ analysisResult' = NoResult
               /\ chatMessages' = <<>>
               /\ UNCHANGED <<error, currentChatSession>>
         [] outcome = "noInsights" ->
               /\ analysisResult' = [of |-> a, shape |-> outcome]
               /\ error' = ERR_ANALYSIS
               /\ UNCHANGED <<currentChatSession, chatMessages>>
         [] OTHER ->
               /\ analysisResult' = [of |-> a, shape |-> outcome]
               /\ currentChatSession' = a
               /\ chatMessages' = <<>>
               /\ UNCHANGED error
    /\ UNCHANGED <<selectedFile, csvData, isSendingChat,
                   outputAudioContext, currentAudioSource, playingMessageId,
                   pendingReads, pendingSends, pendingPlays, sources,
                   nFiles, nextId, nSends, nPlays, nContexts, lastAccepted>>

\* Mutant of CanSend: the guard tests the analysis result only.
CanSend_ResultOnly == analysisResult.of # 0

\* The guard of App.handleSendMessage.
CanSend == currentChatSession # 0 /\ analysisResult.of # 0

\* App.handleSendMessage(text) up to its await.
HandleSendMessage(text) ==
    IF ~CanSend
       THEN /\ error' = ERR_NOSESSION
            /\ UNCHANGED <<chatMessages, isSendingChat, pendingSends, nextId, nSends>>
       ELSE /\ nSends < MaxSends
            /\ nSends' = nSends + 1
            /\ isSendingChat' = TRUE
            /\ error' = ""
            /\ chatMessages' = Append(chatMessages,
                   [id |-> nextId, sender |-> "user", text |-> text,
                    isPlaying |-> FALSE, ctx |-> currentChatSession])
            /\ pendingSends' = pendingSends \cup
                   {[uid |-> nextId, chat |-> currentChatSession, text |-> text,
                     before |-> chatMessages]}
            /\ nextId' = nextId + 1

\* Mutant of ChatInputSend: the input is not disabled while isSending.
ChatInputSend_EnabledWhileSending(text) ==
    /\ analysisResult.of # 0
    /\ HandleSendMessage(text)
    /\ UNCHANGED <<selectedFile, csvData, analysisResult, isLoadingAnalysis,
                   currentChatSession, outputAudioContext, currentAudioSource,
                   playingMessageId, pendingReads, pendingAnalyses, pendingPlays,
                   sources, nFiles, nPlays, nContexts, lastAccepted>>

\* ChatInput: the textarea and the button are disabled while isDisabled
\* (no analysis result) or isSending; otherwise Enter or a click calls
\* onSendMessage with the trimmed, non-empty input.
ChatInputSend(text) ==
    /\ analysisResult.of # 0
    /\ ~isSendingChat
    /\ HandleSendMessage(text)
    /\ UNCHANGED <<selectedFile, csvData, analysisResult, isLoadingAnalysis,
                   currentChatSession, outputAudioContext, currentAudioSource,
                   playingMessageId, pendingReads, pendingAnalyses, pendingPlays,
                   sources, nFiles, nPlays, nContexts, lastAccepted>>

\* response.text || "I'm sorry, I couldn't generate a response."
ReplyText(reply) == IF reply = "" THEN FALLBACK_TEXT ELSE reply

\* handleSendMessage after its await, sendMessageToChat resolved.
SendResolved(s, reply) ==
    /\ s \in pendingSends
    /\ pendingSends' = pendingSends \ {s}
    /\ chatMessages' = Append(chatMessages,
           [id |-> nextId, sender |-> "ai", text |-> ReplyText(reply),
            isPlaying |-> FALSE, ctx |-> s.chat])
    /\ nextId' = nextId + 1
    /\ isSendingChat' = FALSE
    /\ UNCHANGED <<selectedFile, csvData, analysisResult, isLoadingAnalysis, error,
                   currentChatSession, outputAudioContext, currentAudioSource,
                   playingMessageId, pendingReads, pendingAnalyses, pendingPlays,
                   sources, nFiles, nSends, nPlays, nContexts, lastAccepted>>

\* Mutant of SendRejected: the finally block does not reset isSendingChat.
SendRejected_StaysBusy(s) ==
    /\ s \in pendingSends
    /\ pendingSends' = pendingSends \ {s}
    /\ error' = ERR_SEND
    /\ chatMessages' = RemoveMessage(chatMessages, s.uid)
    /\ UNCHANGED <<selectedFile, csvData, analysisResult, isLoadingAnalysis,
                   isSendingChat, currentChatSession, outputAudioContext,
                   currentAudioSource, playingMessageId, pendingReads,
                   pendingAnalyses, pendingPlays, sources, nFiles, nextId,
                   nSends, nPlays, nContexts, lastAccepted>>

\* handleSendMessage after its await, sendMessageToChat rejected.
SendRejected(s) ==
    /\ s \in pendingSends
    /\ pendingSends' = pendingSends \ {s}
    /\ error' = ERR_SEND
    /\ chatMessages' = RemoveMessage(chatMessages, s.uid)
    /\ isSendingChat' = FALSE
    /\ UNCHANGED <<selectedFile, csvData, analysisResult, isLoadingAnalysis,
                   currentChatSession, outputAudioContext, currentAudioSource,
                   playingMessageId, pendingReads, pendingAnalyses, pendingPlays,
                   sources, nFiles, nextId, nSends, nPlays, nContexts, lastAccepted>>

\* stopCurrentAudio: stop() the held source (its ended event fires later).
StopSources(srcs, held) ==
    { IF s.msg = held THEN [s EXCEPT !.st = "stopped"] ELSE s : s \in srcs }

\* Mutant of HandlePlayAudio: every play request creates an audio context.
HandlePlayAudio_NewContext(i) ==
    /\ nPlays < MaxPlays
    /\ i \in DOMAIN chatMessages
    /\ chatMessages[i].sender = "ai"
    /\ ~chatMessages[i].isPlaying
    /\ nPlays' = nPlays + 1
    /\ sources' = StopSources(sources, currentAudioSource)
    /\ currentAudioSource' = 0
    /\ outputAudioContext' = nContexts + 1
    /\ nContexts' = nContexts + 1
    /\ playingMessageId' = chatMessages[i].id
    /\ chatMessages' = SetPlaying(chatMessages, chatMessages[i].id, TRUE)
    /\ pendingPlays' = pendingPlays \cup {chatMessages[i].id}
    /\ UNCHANGED <<selectedFile, csvData, analysisResult, isLoadingAnalysis,
                   isSendingChat, error, currentChatSession, pendingReads,
                   pendingAnalyses, pendingSends, nFiles, nextId, nSends,
                   lastAccepted>>

\* ChatInterface shows "Listen to AI response" for an ai message whose
\* isPlaying flag is not set; handlePlayAudio(messageId, text) up to its await.
HandlePlayAudio(i) ==
    /\ nPlays < MaxPlays
    /\ i \in DOMAIN chatMessages
    /\ chatMessages[i].sender = "ai"
    /\ ~chatMessages[i].isPlaying
    /\ nPlays' = nPlays + 1
    /\ sources' = StopSources(sources, currentAudioSource)
    /\ currentAudioSource' = 0
    /\ IF outputAudioContext = 0
          THEN /\ outputAudioContext' = nContexts + 1
               /\ nContexts' = nContexts + 1
          ELSE UNCHANGED <<outputAudioContext, nContexts>>
    /\ playingMessageId' = chatMessages[i].id
    /\ chatMessages' = SetPlaying(chatMessages, chatMessages[i].id, TRUE)
    /\ pendingPlays' = pendingPlays \cup {chatMessages[i].id}
    /\ UNCHANGED <<selectedFile, csvData, analysisResult, isLoadingAnalysis,
                   isSendingChat, error, currentChatSession, pendingReads,
                   pendingAnalyses, pendingSends, nFiles, nextId, nSends,
                   lastAccepted>>

\* handlePlayAudio after its awaits: speech synthesised and decoded, the
\* source is created, started and held.
PlayResolved(m) ==
    /\ m \in pendingPlays
    /\ pendingPlays' = pendingPlays \ {m}
    /\ sources' = sources \cup {[msg |-> m, st |-> "playing"]}
    /\ currentAudioSource' = m
    /\ UNCHANGED <<selectedFile, csvData, analysisResult, chatMessages,
                   isLoadingAnalysis, isSendingChat, error, currentChatSession,
                   outputAudioContext, playingMessageId, pendingReads,
                   pendingAnalyses, pendingSends, nFiles, nextId, nSends,
                   nPlays, nContexts, lastAccepted>>

\* handlePlayAudio after its awaits: generateSpeech or decodeAudioData threw.
PlayRejected(m) ==
    /\ m \in pendingPlays
    /\ pendingPlays' = pendingPlays \ {m}
    /\ error' = ERR_AUDIO
    /\ playingMessageId' = 0
    /\ chatMessages' = SetPlaying(chatMessages, m, FALSE)
    /\ UNCHANGED <<selectedFile, csvData, analysisResult, isLoadingAnalysis,
                   isSendingChat, currentChatSession, outputAudioContext,
                   currentAudioSource, pendingReads, pendingAnalyses,
                   pendingSends, sources, nFiles, nextId, nSends, nPlays,
                   nContexts, lastAccepted>>

\* source.onended: fires when the source reaches its end and after stop().
SourceEnded(s) ==
    /\ s \in sources
    /\ sources' = sources \ {s}
    /\ playingMessageId' = 0
    /\ chatMessages' = SetPlaying(chatMessages, s.msg, FALSE)
    /\ currentAudioSource' = 0
    /\ UNCHANGED <<selectedFile, csvData, analysisResult, isLoadingAnalysis,
                   isSendingChat, error, currentChatSession, outputAudioContext,
                   pendingReads, pendingAnalyses, pendingSends, pendingPlays,
                   nFiles, nextId, nSends, nPlays, nContexts, lastAccepted>>

Next ==
    \/ \E file \in FileChoices : HandleFileSelect(file) /\ UNCHANGED fnVars
    \/ \E r \in pendingReads : FileLoaded(r) /\ UNCHANGED fnVars
    \/ \E a \in pendingAnalyses, o \in AnalysisOutcomes :
          AnalysisDone(a, o) /\ UNCHANGED fnVars
    \/ \E t \in UserTexts : ChatInputSend(t) /\ UNCHANGED fnVars
    \/ \E s \in pendingSends, reply \in Replies :
          SendResolved(s, reply) /\ UNCHANGED fnVars
    \/ \E s \in pendingSends : SendRejected(s) /\ UNCHANGED fnVars
    \/ \E i \in DOMAIN chatMessages : HandlePlayAudio(i) /\ UNCHANGED fnVars
    \/ \E m \in pendingPlays : PlayResolved(m) /\ UNCHANGED fnVars
    \/ \E m \in pendingPlays : PlayRejected(m) /\ UNCHANGED fnVars
    \/ \E s \in sources : SourceEnded(s) /\ UNCHANGED fnVars

Spec == Init /\ [][Next]_vars

\* Every external request is settled in the end: a pending analysis request
\* resolves or rejects, and so does a pending chat request.
RequestsSettle ==
    /\ WF_vars(\E a \in pendingAnalyses, o \in AnalysisOutcomes :
                  AnalysisDone(a, o) /\ UNCHANGED fnVars)
    /\ WF_vars(\E s \in pendingSends :
                  \/ \E reply \in Replies : SendResolved(s, reply) /\ UNCHANGED fnVars
                  \/ SendRejected(s) /\ UNCHANGED fnVars)

\* The steps of the upload, analysis and chat handlers. The audio handlers
\* neither read nor write the busy flags and the pending requests, and these
\* handlers do not read what the audio handlers write (the isPlaying flags,
\* the marker, the source ref), so the audio steps are left out here.
NextRequests ==
    \/ \E file \in FileChoices : HandleFileSelect(file) /\ UNCHANGED fnVars
    \/ \E r \in pendingReads : FileLoaded(r) /\ UNCHANGED fnVars
    \/ \E a \in pendingAnalyses, o \in AnalysisOutcomes :
          AnalysisDone(a, o) /\ UNCHANGED fnVars
    \/ \E t \in UserTexts : ChatInputSend(t) /\ UNCHANGED fnVars
    \/ \E s \in pendingSends, reply \in Replies :
          SendResolved(s, reply) /\ UNCHANGED fnVars
    \/ \E s \in pendingSends : SendRejected(s) /\ UNCHANGED fnVars

SpecLive == Init /\ [][NextRequests]_vars /\ RequestsSettle

\* -------------------------------------------------------- analyzeCsvData

MaxRows == 102     \* data rows of the tables given to analyzeCsvData

maxRowsForPrompt == 100

TRUNCATION_NOTE == "Only the first 100 rows of your CSV were sent to the AI for analysis due to prompt length limitations. The full dataset was used for chart generation."

Min(a, b) == IF a < b THEN a ELSE b

\* A string built by join is modelled as the sequence of its pieces: the
\* joined items with the separator between each two (computed by halves).
RECURSIVE Join(_, _)
Join(items, sep) ==
    IF Len(items) = 0 THEN <<>>
    ELSE IF Len(items) = 1 THEN <<items[1]>>
    ELSE LET h == Len(items) \div 2
         IN  Join(SubSeq(items, 1, h), sep) \o <<sep>> \o
             Join(SubSeq(items, h + 1, Len(items)), sep)

\* The pieces of several joined strings, with sep between each two strings.
RECURSIVE JoinLines(_, _)
JoinLines(strs, sep) ==
    IF Len(strs) = 0 THEN <<>>
    ELSE IF Len(strs) = 1 THEN strs[1]
    ELSE LET h == Len(strs) \div 2
         IN  JoinLines(SubSeq(strs, 1, h), sep) \o <<sep>> \o
             JoinLines(SubSeq(strs, h + 1, Len(strs)), sep)

\* Mutant of PromptRows: the cap is applied one row late (slice(0, max + 1)).
PromptRows_OneMore(rows) ==
    SubSeq(rows, 1, Min(Len(rows), maxRowsForPrompt + 1))

\* csvData.rows.slice(0, maxRowsForPrompt)
PromptRows(rows) ==
    SubSeq(rows, 1, Min(Len(rows), maxRowsForPrompt))

\* csvContent: the header line and the sampled rows, joined by line breaks.
CsvContent(data) ==
    JoinLines(<<Join(data.headers, ",")>> \o
                 [i \in 1..Len(PromptRows(data.rows)) |->
                     Join(PromptRows(data.rows)[i], ",")],
              "\n")

\* truncationNote: set when the table has more rows than the cap ("" = null).
TruncationNoteFor(data) ==
    IF Len(data.rows) > maxRowsForPrompt THEN TRUNCATION_NOTE ELSE ""

\* What the model's JSON can parse to, as far as its notes go: an unparseable
\* text, null, an object without analysisNotes, or one with a list of notes.
Responses ==
    { [kind |-> "invalid", hasNotes |-> FALSE, notes |-> <<>>],
      [kind |-> "null",    hasNotes |-> FALSE, notes |-> <<>>],
      [kind |-> "object",  hasNotes |-> FALSE, notes |-> <<>>],
      [kind |-> "object",  hasNotes |-> TRUE,  notes |-> <<>>],
      [kind |-> "object",  hasNotes |-> TRUE,  notes |-> <<"note from the model">>] }

\* analyzeCsvData(csvData), given the response of the model: the CSV sample
\* put in the prompt and the value returned (or the throw).
AnalyzeCsvData(data, response) ==
    LET note == TruncationNoteFor(data)
        \* JSON.parse throws on an invalid text; reading result.analysisNotes
        \* of null throws when there is a truncation note to add
        threw == \/ response.kind = "invalid"
                 \/ (response.kind = "null" /\ note # "")
        result ==
            IF response.kind = "object" /\ note # ""
               THEN [response EXCEPT !.hasNotes = TRUE,
                                     !.notes = <<note>> \o response.notes]
               ELSE response
    IN  [fn |-> "analyzeCsvData",
         csvContent |-> CsvContent(data),
         threw |-> threw,
         analysisResult |-> result,
         truncationNote |-> note]

\* The tables given to analyzeCsvData: 0..MaxRows rows, row i holding the
\* cells "i" and "x".
AnalysisTables ==
    { [headers |-> <<"h1", "h2">>,
       rows |-> [i \in 1..n |-> <<ToString(i), "x">>]] : n \in 0..MaxRows }

InitAnalyze ==
    /\ AppInit
    /\ call \in { [fn |-> "analyzeCsvData", data |-> d, response |-> r] :
                     d \in AnalysisTables, r \in Responses }
    /\ ret = NoCall

CallAnalyzeCsvData ==
    /\ call.fn = "analyzeCsvData"
    /\ ret.fn = "none"
    /\ ret' = AnalyzeCsvData(call.data, call.response)
    /\ UNCHANGED call

NextAnalyze == CallAnalyzeCsvData /\ UNCHANGED appVars

SpecAnalyze == InitAnalyze /\ [][NextAnalyze]_vars

\* ------------------------------------------------------ prepareChartData

MaxChartRows == 3  \* data rows of the tables given to prepareChartData

\* The cell texts of the tables given to the mapper.
CellStrings == {"", " ", "a", "b", "1", "1.0", "2", "-1", "NaN", "undefined"}

\* A row of the one-column tables.
ChartRows == {<<c>> : c \in CellStrings}

\* JavaScript values: a number, a string, NaN or undefined.
NumV(n) == [t |-> "num", n |-> n, s |-> ""]
StrV(s) == [t |-> "str", n |-> 0, s |-> s]
NaNV    == [t |-> "nan", n |-> 0, s |-> ""]
UndefV  == [t |-> "undef", n |-> 0, s |-> ""]

\* value.trim() === ''
TrimsToEmpty(s) == s \in {"", " "}

\* Number(value) for the cell texts: the number a numeric literal denotes,
\* NaN for any other text (an empty or blank text denotes 0).
ToNumber(s) ==
    CASE s \in {"1", "1.0"} -> NumV(1)
      [] s = "2"            -> NumV(2)
      [] s = "-1"           -> NumV(-1)
      [] s \in {"", " "}    -> NumV(0)
      [] OTHER              -> NaNV

\* Mutant of ParseValue: the text of a numeric cell is kept, not its number.
ParseValue_KeepText(cell) ==
    IF cell = <<>> \/ TrimsToEmpty(cell[1]) THEN NaNV ELSE StrV(cell[1])

\* Mutant of ParseValue: an empty or blank cell is kept as its text.
ParseValue_EmptyKeepsText(cell) ==
    IF cell = <<>>
       THEN NaNV
       ELSE IF TrimsToEmpty(cell[1]) \/ ToNumber(cell[1]).t = "nan"
               THEN StrV(cell[1])
               ELSE ToNumber(cell[1])

\* parseValue(value); cell is <<>> for undefined and <<text>> otherwise.
ParseValue(cell) ==
    IF cell = <<>> \/ TrimsToEmpty(cell[1])
       THEN NaNV
       ELSE IF ToNumber(cell[1]).t = "nan" THEN StrV(cell[1]) ELSE ToNumber(cell[1])

\* String(value)
StringOf(v) ==
    CASE v.t = "num"   -> ToString(v.n)
      [] v.t = "str"   -> v.s
      [] v.t = "nan"   -> "NaN"
      [] v.t = "undef" -> "undefined"

\* row[i], undefined past the end of the row.
CellAt(row, i) == IF i \in DOMAIN row THEN <<row[i]>> ELSE <<>>

\* rowObject[column] of rawRows: the parsed cell under the last header named
\* column, undefined when no header has that name.
RowValue(data, row, column) ==
    LET idx == {i \in DOMAIN data.headers : data.headers[i] = column}
    IN  IF idx = {} THEN UndefV
        ELSE ParseValue(CellAt(row, CHOOSE i \in idx : \A j \in idx : j <= i))

\* counts after the forEach over the first n rows: the keys in the order
\* they were first assigned, and the count of each.
RECURSIVE CountValues(_, _, _)
CountValues(data, column, n) ==
    IF n = 0 THEN [keys |-> <<>>, count |-> <<>>]
    ELSE LET prev == CountValues(data, column, n - 1)
             value == StringOf(RowValue(data, data.rows[n], column))
             at == {i \in DOMAIN prev.keys : prev.keys[i] = value}
         IN  IF value = "NaN" \/ value = "undefined" THEN prev
             ELSE IF at = {}
                     THEN [keys |-> Append(prev.keys, value),
                           count |-> Append(prev.count, 1)]
                     ELSE [prev EXCEPT !.count =
                              [i \in DOMAIN prev.count |->
                                  IF i \in at THEN prev.count[i] + 1
                                              ELSE prev.count[i]]]

\* The array index a property key denotes (the canonical text of an integer
\* 0, 1, 2, ...), -1 for any other key. The integers looked at are those a
\* cell text can denote.
ArrayIndexOf(key) ==
    LET cands == {n \in {ToNumber(c).n : c \in CellStrings} : n >= 0}
    IN  IF \E n \in cands : ToString(n) = key
           THEN CHOOSE n \in cands : ToString(n) = key
           ELSE -1

\* A sequence of the elements of the set of integers S in ascending order.
RECURSIVE Ascending(_)
Ascending(S) ==
    IF S = {} THEN <<>>
    ELSE LET m == CHOOSE x \in S : \A y \in S : x <= y
         IN  <<m>> \o Ascending(S \ {m})

\* Mutant of EntryOrder: the keys are listed in the order they were created.
EntryOrder_Insertion(keys) == [i \in DOMAIN keys |-> i]

\* Object.entries lists the array-index keys first, in ascending numeric
\* order, then the other keys in the order they were created. The result is
\* the sequence of positions in keys.
EntryOrder(keys) ==
    LET idxPos == {i \in DOMAIN keys : ArrayIndexOf(keys[i]) >= 0}
        idxVals == {ArrayIndexOf(keys[i]) : i \in idxPos}
        sorted == Ascending(idxVals)
    IN  [k \in 1..Len(sorted) |->
            CHOOSE i \in idxPos : ArrayIndexOf(keys[i]) = sorted[k]]
        \o SelectSeq([i \in DOMAIN keys |-> i], LAMBDA i : i \notin idxPos)

\* Object.entries(counts).map(([name, count]) => ({ name, count }))
BarRecords(counts) ==
    LET order == EntryOrder(counts.keys)
    IN  [k \in DOMAIN order |->
            [name |-> counts.keys[order[k]], count |-> counts.count[order[k]]]]

\* The global isNaN(value): whether Number(value) is NaN.
IsNaN(v) ==
    CASE v.t = "num" -> FALSE
      [] v.t = "str" -> ToNumber(v.s).t = "nan"
      [] OTHER       -> TRUE

\* Mutant of ScatterKeeps: a row is kept when either value is a number.
ScatterKeeps_Either(data, row, xCol, yCol) ==
    ~IsNaN(RowValue(data, row, xCol)) \/ ~IsNaN(RowValue(data, row, yCol))

\* rawRows.filter(row => !isNaN(row[xCol]) && !isNaN(row[yCol]))
ScatterKeeps(data, row, xCol, yCol) ==
    ~IsNaN(RowValue(data, row, xCol)) /\ ~IsNaN(RowValue(data, row, yCol))

\* The scatter records: { [xCol]: row[xCol], [yCol]: row[yCol] } of the rows kept.
ScatterRecords(data, xCol, yCol) ==
    LET kept == SelectSeq(data.rows, LAMBDA row : ScatterKeeps(data, row, xCol, yCol))
    IN  [k \in DOMAIN kept |->
            [c \in {xCol, yCol} |-> RowValue(data, kept[k], c)]]

\* Mutant of LineKeys: a series key is set whatever its value.
LineKeys_All(data, row, columns) ==
    {columns[j] : j \in DOMAIN columns}

\* The keys of the record of a row of a line spec: the x column, and each
\* series column whose value passes !isNaN.
LineKeys(data, row, columns) ==
    {columns[1]} \cup
    {columns[j] : j \in {i \in DOMAIN columns :
                            i > 1 /\ ~IsNaN(RowValue(data, row, columns[i]))}}

\* The line records, one per row.
LineRecords(data, columns) ==
    [k \in DOMAIN data.rows |->
        [c \in LineKeys(data, data.rows[k], columns) |->
            RowValue(data, data.rows[k], c)]]

\* Mutant of PrepareChartData: a bar spec with more than one column is
\* counted on its first column.
PrepareChartData_BarAnyColumns(chartParam, data) ==
    CASE chartParam.type = "bar" ->
            IF Len(chartParam.columns) >= 1
               THEN BarRecords(CountValues(data, chartParam.columns[1], Len(data.rows)))
               ELSE <<>>
      [] chartParam.type = "scatter" ->
            IF Len(chartParam.columns) = 2
               THEN ScatterRecords(data, chartParam.columns[1], chartParam.columns[2])
               ELSE <<>>
      [] chartParam.type = "line" ->
            IF Len(chartParam.columns) >= 2
               THEN LineRecords(data, chartParam.columns)
               ELSE <<>>
      [] OTHER -> <<>>

\* prepareChartData(chartParam, data)
PrepareChartData(chartParam, data) ==
    CASE chartParam.type = "bar" ->
            IF Len(chartParam.columns) = 1
               THEN BarRecords(CountValues(data, chartParam.columns[1], Len(data.rows)))
               ELSE <<>>
      [] chartParam.type = "scatter" ->
            IF Len(chartParam.columns) = 2
               THEN ScatterRecords(data, chartParam.columns[1], chartParam.columns[2])
               ELSE <<>>
      [] chartParam.type = "line" ->
            IF Len(chartParam.columns) >= 2
               THEN LineRecords(data, chartParam.columns)
               ELSE <<>>
      [] OTHER -> <<>>

\* What renderChart returns: the placeholder for a spec without columns, the
\* placeholder for an empty mapper result, or the chart container with the
\* chart element whose type and column count match (none when none matches).
RenderChart(chartParam, data) ==
    IF Len(chartParam.columns) = 0 THEN "placeholder: could not be generated"
    ELSE IF Len(PrepareChartData(chartParam, data)) = 0
            THEN "placeholder: no valid data"
    ELSE CASE chartParam.type = "bar" /\ Len(chartParam.columns) = 1 -> "BarChart"
           [] chartParam.type = "scatter" /\ Len(chartParam.columns) = 2 -> "ScatterChart"
           [] chartParam.type = "line" /\ Len(chartParam.columns) >= 2 -> "LineChart"
           [] OTHER -> "empty chart container"

\* The chart specifications and tables given to the mapper.
ChartParams ==
    { [type |-> "bar", columns |-> <<"c">>],
      [type |-> "bar", columns |-> <<"c", "c">>],
      [type |-> "bar", columns |-> <<"missing">>],
      [type |-> "line", columns |-> <<"c", "missing">>] }

RECURSIVE SeqsUpTo(_, _)
SeqsUpTo(S, n) ==
    IF n = 0 THEN {<<>>}
    ELSE SeqsUpTo(S, n - 1) \cup
         {Append(q, x) : q \in {p \in SeqsUpTo(S, n - 1) : Len(p) = n - 1}, x \in S}

ChartTables ==
    { [headers |-> <<"c">>, rows |-> rows] : rows \in SeqsUpTo(ChartRows, MaxChartRows) }

MaxWideRows == 2   \* data rows of the three-column tables

\* A row of the three-column tables (headers t, a, b), or a shorter line.
WideRows ==
    {<<t, a, b>> : t \in {"", "1", "foo"}, a \in {"", "1", "foo"}, b \in {"2", "bar"}}
    \cup {<<"1">>}

WideTables ==
    { [headers |-> <<"t", "a", "b">>, rows |-> rows] :
         rows \in SeqsUpTo(WideRows, MaxWideRows) }

\* The chart specifications given with the three-column tables.
WideParams ==
    { [type |-> "scatter", columns |-> <<"t", "a">>],
      [type |-> "scatter", columns |-> <<"t">>],
      [type |-> "scatter", columns |-> <<"t", "a", "b">>],
      [type |-> "scatter", columns |-> <<"a", "missing">>],
      [type |-> "line",    columns |-> <<"t", "a", "b">>],
      [type |-> "line",    columns |-> <<"t", "a">>],
      [type |-> "line",    columns |-> <<"t", "missing">>],
      [type |-> "line",    columns |-> <<"t">>],
      [type |-> "line",    columns |-> <<>>],
      [type |-> "bar",     columns |-> <<"t", "a">>],
      [type |-> "bar",     columns |-> <<>>],
      [type |-> "pie",     columns |-> <<"t", "a">>] }

InitChart ==
    /\ AppInit
    /\ \/ \E p \in ChartParams, d \in ChartTables :
             call = [fn |-> "prepareChartData", chartParam |-> p, data |-> d]
       \/ \E d \in ChartTables :
             call = [fn |-> "renderChart",
                     chartParam |-> [type |-> "bar", columns |-> <<"c">>], data |-> d]
       \/ \E f \in {"prepareChartData", "renderChart"}, p \in WideParams, d \in WideTables :
             call = [fn |-> f, chartParam |-> p, data |-> d]
    /\ ret = NoCall

CallPrepareChartData ==
    /\ call.fn = "prepareChartData"
    /\ ret.fn = "none"
    /\ ret' = [fn |-> "prepareChartData",
               chartData |-> PrepareChartData(call.chartParam, call.data)]
    /\ UNCHANGED call

CallRenderChart ==
    /\ call.fn = "renderChart"
    /\ ret.fn = "none"
    /\ ret' = [fn |-> "renderChart",
               rendered |-> RenderChart(call.chartParam, call.data)]
    /\ UNCHANGED call

NextChart ==
    \/ CallPrepareChartData /\ UNCHANGED appVars
    \/ CallRenderChart /\ UNCHANGED appVars

SpecChart == InitChart /\ [][NextChart]_vars

\* ------------------------------------------------------ sendMessageToChat

MaxChunks == 2  \* chunks of a response stream

\* A chunk of the response stream: its text and its usage, each <<>> when
\* the chunk has none.
Chunks ==
    { [text |-> t, usage |-> u] :
         t \in {<<>>, <<"a">>, <<"b">>},
         u \in {<<>>, << [inputTokens |-> 1, outputTokens |-> 2] >>} }

\* The streams given to sendMessageToChat: the chunks the stream delivers
\* and the number of chunks after which it throws (-1: it ends normally;
\* 0: sendMessageStream itself rejects or the first read throws).
Streams ==
    { [chunks |-> c, failsAfter |-> f] :
         c \in SeqsUpTo(Chunks, MaxChunks), f \in -1..MaxChunks }

\* Mutant of AddText: the fragment is put in front of the text so far.
AddText_InFront(fullText, chunk) ==
    IF chunk.text # <<>> /\ chunk.text[1] # ""
       THEN chunk.text[1] \o fullText
       ELSE fullText

\* if (chunk.text) { fullText += chunk.text; }
AddText(fullText, chunk) ==
    IF chunk.text # <<>> /\ chunk.text[1] # ""
       THEN fullText \o chunk.text[1]
       ELSE fullText

NoUsage == [inputTokens |-> 0, outputTokens |-> 0]

\* collectedChunks.reduce(...) over the first n chunks.
RECURSIVE ReduceUsage(_, _)
ReduceUsage(chunks, n) ==
    IF n = 0 THEN NoUsage
    ELSE LET acc == ReduceUsage(chunks, n - 1)
             u == IF chunks[n].usage = <<>> THEN NoUsage ELSE chunks[n].usage[1]
         IN  [inputTokens |-> acc.inputTokens + u.inputTokens,
              outputTokens |-> acc.outputTokens + u.outputTokens]

\* The frame of the running call: the chunks read and the text so far.
SendFrame ==
    IF ret.fn = "none"
       THEN [fn |-> "sendMessageToChat", pc |-> "loop", i |-> 0, text |-> "",
             usage |-> NoUsage, threw |-> FALSE]
       ELSE ret

\* The state of the application while its one send is in flight: a file was
\* analysed, a session created and handleSendMessage has reached its await.
InitSend ==
    /\ selectedFile = 1
    /\ csvData = 1
    /\ analysisResult = [of |-> 1, shape |-> "full"]
    /\ chatMessages = << [id |-> 1, sender |-> "user", text |-> "q",
                          isPlaying |-> FALSE, ctx |-> 1] >>
    /\ isLoadingAnalysis = FALSE
    /\ isSendingChat = TRUE
    /\ error = ""
    /\ currentChatSession = 1
    /\ outputAudioContext = 0
    /\ currentAudioSource = 0
    /\ playingMessageId = 0
    /\ pendingReads = {}
    /\ pendingAnalyses = {}
    /\ pendingSends = {[uid |-> 1, chat |-> 1, text |-> "q", before |-> <<>>]}
    /\ pendingPlays = {}
    /\ sources = {}
    /\ nFiles = 1
    /\ nextId = 2
    /\ nSends = 1
    /\ nPlays = 0
    /\ nContexts = 0
    /\ lastAccepted = 1
    /\ \E st \in Streams :
          /\ st.failsAfter <= Len(st.chunks)
          /\ call = [fn |-> "sendMessageToChat", stream |-> st]
    /\ ret = NoCall

\* One turn of the for await loop: the next chunk is collected.
SendChunk ==
    /\ call.fn = "sendMessageToChat"
    /\ SendFrame.pc = "loop"
    /\ SendFrame.i < Len(call.stream.chunks)
    /\ call.stream.failsAfter # SendFrame.i
    /\ ret' = [SendFrame EXCEPT
                  !.i = @ + 1,
                  !.text = AddText(@, call.stream.chunks[SendFrame.i + 1])]
    /\ UNCHANGED call

\* The stream has ended: the text and the summed usage are returned.
SendReturn ==
    /\ call.fn = "sendMessageToChat"
    /\ SendFrame.pc = "loop"
    /\ SendFrame.i = Len(call.stream.chunks)
    /\ call.stream.failsAfter # SendFrame.i
    /\ ret' = [SendFrame EXCEPT
                  !.pc = "settled",
                  !.usage = ReduceUsage(call.stream.chunks, SendFrame.i)]
    /\ UNCHANGED call

\* The stream throws: the catch block throws a new Error, fullText is lost.
SendThrow ==
    /\ call.fn = "sendMessageToChat"
    /\ SendFrame.pc = "loop"
    /\ call.stream.failsAfter = SendFrame.i
    /\ ret' = [SendFrame EXCEPT !.pc = "settled", !.text = "", !.threw = TRUE]
    /\ UNCHANGED call

\* handleSendMessage goes on after its await with what the call settled to.
SendHandled ==
    /\ call.fn = "sendMessageToChat"
    /\ ret.fn = "sendMessageToChat"
    /\ ret.pc = "settled"
    /\ \E s \in pendingSends :
          IF ret.threw THEN SendRejected(s) ELSE SendResolved(s, ret.text)
    /\ ret' = [ret EXCEPT !.pc = "handled"]
    /\ UNCHANGED call

NextSend ==
    \/ SendChunk /\ UNCHANGED appVars
    \/ SendReturn /\ UNCHANGED appVars
    \/ SendThrow /\ UNCHANGED appVars
    \/ SendHandled

SpecSend == InitSend /\ [][NextSend]_vars

\* ------------------------------------------------- reader.onload (parsing)

MaxTextLen == 4  \* characters of a file text

\* The characters of the file texts; a text is a sequence of characters.
TextChars == {"a", "b", ",", " ", "\n"}

\* The characters String.prototype.trim removes, among TextChars.
WhiteSpace == {" ", "\n"}

\* text.split(sep): the pieces between the occurrences of sep, one more than
\* there are occurrences.
RECURSIVE Split(_, _)
Split(text, sep) ==
    IF \A i \in DOMAIN text : text[i] # sep
       THEN <<text>>
       ELSE LET k == CHOOSE i \in DOMAIN text :
                        text[i] = sep /\ \A j \in 1..(i - 1) : text[j] # sep
            IN  <<SubSeq(text, 1, k - 1)>> \o Split(SubSeq(text, k + 1, Len(text)), sep)

\* Mutant of Trim: only leading white space is removed.
RECURSIVE Trim_LeadingOnly(_)
Trim_LeadingOnly(text) ==
    IF text # <<>> /\ Head(text) \in WhiteSpace
       THEN Trim_LeadingOnly(Tail(text))
       ELSE text

\* text.trim()
RECURSIVE Trim(_)
Trim(text) ==
    IF text # <<>> /\ Head(text) \in WhiteSpace
       THEN Trim(Tail(text))
    ELSE IF text # <<>> /\ text[Len(text)] \in WhiteSpace
       THEN Trim(SubSeq(text, 1, Len(text) - 1))
    ELSE text

\* line.split(',').map(c => c.trim())
FieldsOf(line) ==
    LET fields == Split(line, ",")
    IN  [i \in DOMAIN fields |-> Trim(fields[i])]

\* text.split('\n').filter(line => line.trim() !== '')
NonBlankLines(text) == SelectSeq(Split(text, "\n"), LAMBDA line : Trim(line) # <<>>)

\* What reader.onload makes of the text: the empty-file error, or the
\* table given to setCsvData and analyzeAndChat.
ParseCsv(text) ==
    LET lines == NonBlankLines(text)
    IN  IF Len(lines) = 0
           THEN [fn |-> "onload", error |-> ERR_EMPTY, headers |-> <<>>, rows |-> <<>>]
           ELSE [fn |-> "onload", error |-> "",
                 headers |-> FieldsOf(lines[1]),
                 rows |-> [k \in 1..(Len(lines) - 1) |-> FieldsOf(lines[k + 1])]]

InitParse ==
    /\ AppInit
    /\ \E text \in SeqsUpTo(TextChars, MaxTextLen) : call = [fn |-> "onload", text |-> text]
    /\ ret = NoCall

ReaderOnload ==
    /\ call.fn = "onload"
    /\ ret.fn = "none"
    /\ ret' = ParseCsv(call.text)
    /\ UNCHANGED call

NextParse == ReaderOnload /\ UNCHANGED appVars

SpecParse == InitParse /\ [][NextParse]_vars

\* ------------------------------------------------------------ properties

\* C1: at most one message of the transcript has its isPlaying flag set.
C1_AtMostOnePlayingFlag ==
    Cardinality({i \in DOMAIN chatMessages : chatMessages[i].isPlaying}) <= 1

\* C2: at most one audio source is started and not yet stopped or ended.
C2_AtMostOneSourcePlaying ==
    Cardinality({s \in sources : s.st = "playing"}) <= 1

\* C3: selecting a file over 20 MB starts no file read and no analysis, and
\* leaves the table, the analysis result, the session and the transcript as
\* they were; only the error and the file selection change.
C3_OversizeChangesNothing ==
    [][\A f \in FileChoices :
          (f.size > SizeLimit /\ HandleFileSelect(f)) =>
              /\ pendingReads' = pendingReads
              /\ pendingAnalyses' = pendingAnalyses
              /\ csvData' = csvData
              /\ analysisResult' = analysisResult
              /\ currentChatSession' = currentChatSession
              /\ chatMessages' = chatMessages]_vars

\* The provisional user message of a send in flight.
Provisional(s) ==
    [id |-> s.uid, sender |-> "user", text |-> s.text,
     isPlaying |-> FALSE, ctx |-> s.chat]

\* Index of the message with identity id in msgs, 0 when there is none.
IndexOf(msgs, id) ==
    IF \E i \in DOMAIN msgs : msgs[i].id = id
       THEN CHOOSE i \in DOMAIN msgs : msgs[i].id = id
       ELSE 0

\* C4 as stated: when a send fails, the transcript afterwards is the
\* transcript as it was before the provisional user message was appended.
C4_RollbackRestoresSnapshot ==
    [][\A s \in pendingSends : SendRejected(s) => chatMessages' = s.before]_vars

\* C4 amended: when a send fails, the transcript afterwards is the transcript
\* just before the failure with the provisional user message taken out (every
\* other message kept, unchanged and in order, nothing added); it is the
\* transcript from before the append whenever nothing else changed the
\* transcript while the send was in flight.
C4_RollbackRemovesOnlyProvisional ==
    [][\A s \in pendingSends : SendRejected(s) =>
          LET pos == IndexOf(chatMessages, s.uid) IN
          /\ \A i \in DOMAIN chatMessages' : chatMessages'[i].id # s.uid
          /\ IF pos = 0
                THEN chatMessages' = chatMessages
                ELSE /\ Len(chatMessages') = Len(chatMessages) - 1
                     /\ \A i \in DOMAIN chatMessages' :
                           chatMessages'[i] =
                              chatMessages[IF i < pos THEN i ELSE i + 1]
          /\ (chatMessages = Append(s.before, Provisional(s))
                 => chatMessages' = s.before)]_vars

\* A send has failed and its rollback left an earlier exchange in place.
C4_Witness ==
    /\ error = ERR_SEND
    /\ pendingSends = {}
    /\ Len(chatMessages) = 2

\* C5: once a file selection has been accepted, nothing of an earlier upload
\* is held: the table, the analysis result, the chat session and every
\* message of the transcript are absent or belong to the accepted file.
C5_NewUploadDiscardsPrevious ==
    lastAccepted # 0 =>
        /\ csvData \in {0, lastAccepted}
        /\ analysisResult.of \in {0, lastAccepted}
        /\ currentChatSession \in {0, lastAccepted}
        /\ \A i \in DOMAIN chatMessages : chatMessages[i].ctx = lastAccepted

\* C6: a chat session is held only while an analysis result is loaded, and
\* it is the session created from that result.
C6_SessionOnlyWithResult ==
    currentChatSession # 0 =>
        /\ analysisResult.of # 0
        /\ currentChatSession = analysisResult.of

\* C7: a session is created only by the completion of an analysis request
\* that stored a result; a send reaches the Chat Client only when a session
\* exists and a result is loaded; a send attempted without them makes no
\* request, appends nothing and sets the error.
C7_CausalOrdering ==
    [][/\ currentChatSession' # currentChatSession =>
             /\ currentChatSession' \in pendingAnalyses
             /\ currentChatSession' \notin pendingAnalyses'
             /\ analysisResult'.of = currentChatSession'
       /\ pendingSends' \ pendingSends # {} =>
             /\ currentChatSession # 0
             /\ analysisResult.of # 0
             /\ \A s \in pendingSends' \ pendingSends :
                   s.chat = currentChatSession
       /\ \A t \in UserTexts :
             (ChatInputSend(t) /\ (currentChatSession = 0 \/ analysisResult.of = 0)) =>
                 /\ pendingSends' = pendingSends
                 /\ chatMessages' = chatMessages
                 /\ error' = ERR_NOSESSION]_vars

\* A send was attempted with a result loaded but no session, and refused.
C7_Witness ==
    /\ error = ERR_NOSESSION
    /\ analysisResult.of # 0
    /\ currentChatSession = 0
    /\ pendingSends = {}
    /\ chatMessages = <<>>

\* The lines of a joined text: the runs of pieces between the "\n" pieces.
LinesOf(text) ==
    LET brk == {i \in DOMAIN text : text[i] = "\n"} \cup {0, Len(text) + 1}
        start(k) == CHOOSE i \in brk :
                       Cardinality({j \in brk : j < i}) = k - 1
    IN  [k \in 1..(Cardinality(brk) - 1) |->
            SubSeq(text, start(k) + 1, start(k + 1) - 1)]

\* C8: for a table with N data rows the CSV content of the prompt is the
\* header row followed by the first min(N, 100) data rows in order; when
\* N > 100 the truncation note is the first note of the returned result,
\* before the model's notes; when N <= 100 the notes are the model's.
C8_PromptSampleAndNote ==
    (ret.fn = "analyzeCsvData") =>
        LET data == call.data
            n == Len(data.rows)
            k == IF n < 100 THEN n ELSE 100
            lines == LinesOf(ret.csvContent)
        IN  /\ Len(lines) = 1 + k
            /\ lines[1] = <<"h1", ",", "h2">>
            /\ \A i \in 1..k : lines[i + 1] = <<ToString(i), ",", "x">>
            /\ (~ret.threw /\ ret.analysisResult.kind = "object") =>
                 IF n > 100
                    THEN /\ ret.analysisResult.hasNotes
                         /\ Len(ret.analysisResult.notes) = 1 + Len(call.response.notes)
                         /\ ret.analysisResult.notes[1] = TRUNCATION_NOTE
                         /\ \A j \in DOMAIN call.response.notes :
                               ret.analysisResult.notes[j + 1] = call.response.notes[j]
                    ELSE /\ ret.analysisResult.hasNotes = call.response.hasNotes
                         /\ ret.analysisResult.notes = call.response.notes

\* A table of more than 100 rows was analysed and the model sent a note of
\* its own.
C8_Witness ==
    /\ ret.fn = "analyzeCsvData"
    /\ Len(call.data.rows) = 101
    /\ ~ret.threw
    /\ Len(ret.analysisResult.notes) = 2

\* The text of the cell of row i under the column of a one-column bar spec,
\* <<>> when the row has no such cell (the tables have the one header "c").
BarCell(i) ==
    IF call.chartParam.columns[1] = "c" /\ call.data.rows[i] # <<>>
       THEN <<call.data.rows[i][1]>>
       ELSE <<>>

\* A call of the mapper for a bar spec with exactly one column has returned.
BarCallDone ==
    /\ ret.fn = "prepareChartData"
    /\ call.chartParam.type = "bar"
    /\ Len(call.chartParam.columns) = 1

CountKey(text) ==
    CASE text \in {"1", "1.0"} -> "1"
      [] OTHER -> text

\* The rows a bar spec counts: the cell is present, does not trim to empty
\* and is not the text NaN or undefined.
CountedRows ==
    {i \in DOMAIN call.data.rows :
        BarCell(i) # <<>> /\ BarCell(i)[1] \notin {"", " ", "NaN", "undefined"}}

C10_FirstSeenOrder ==
    BarCallDone =>
        LET first(name) ==
               CHOOSE i \in CountedRows :
                  /\ CountKey(BarCell(i)[1]) = name
                  /\ \A j \in CountedRows :
                        CountKey(BarCell(j)[1]) = name => i <= j
        IN  \A k1, k2 \in DOMAIN ret.chartData :
               (\A k \in {k1, k2} :
                   \E i \in CountedRows :
                      CountKey(BarCell(i)[1]) = ret.chartData[k].name)
               => (k1 < k2 <=> first(ret.chartData[k1].name)
                                  < first(ret.chartData[k2].name))

\* The text of the cell of row i under a column of the table, <<>> when
\* the row has no such cell or the table no such column.
WideCell(i, column) ==
    LET row == call.data.rows[i]
        at == {p \in DOMAIN call.data.headers : call.data.headers[p] = column}
    IN  IF at # {} /\ (CHOOSE p \in at : TRUE) \in DOMAIN row
           THEN <<row[CHOOSE p \in at : TRUE]>>
           ELSE <<>>

\* The cell texts of the tables that are numeric literals.
WideNumerals == {"1", "1.0", "2", "-1"}

\* The number a numeral denotes.
WideNumber(text) ==
    CASE text \in {"1", "1.0"} -> NumV(1)
      [] text = "2" -> NumV(2)
      [] text = "-1" -> NumV(-1)

\* The cell of row i under the column is present and parses as a number.
WideNumeric(i, column) ==
    WideCell(i, column) # <<>> /\ WideCell(i, column)[1] \in WideNumerals

\* The k-th smallest member of a set of row indexes.
NthOf(S, k) == CHOOSE i \in S : Cardinality({j \in S : j <= i}) = k

\* A call of the mapper for a scatter spec with exactly two columns has returned.
ScatterCallDone ==
    /\ ret.fn = "prepareChartData"
    /\ call.chartParam.type = "scatter"
    /\ Len(call.chartParam.columns) = 2

\* C11: a scatter spec with exactly two columns yields, in row order, one
\* record holding both column values for each row whose two selected cells
\* parse as numbers, and nothing for a row where either cell is empty,
\* non-numeric or absent.
C11_ScatterBothNumeric ==
    ScatterCallDone =>
        LET xCol == call.chartParam.columns[1]
            yCol == call.chartParam.columns[2]
            kept == {i \in DOMAIN call.data.rows :
                        WideNumeric(i, xCol) /\ WideNumeric(i, yCol)}
        IN  /\ Len(ret.chartData) = Cardinality(kept)
            /\ \A k \in DOMAIN ret.chartData :
                  ret.chartData[k] =
                     [c \in {xCol, yCol} |-> WideNumber(WideCell(NthOf(kept, k), c)[1])]

\* Of the rows (foo, 1) and (1, 1) under the spec (t, a), only the second
\* was emitted.
C11_Witness ==
    /\ ScatterCallDone
    /\ call.chartParam.columns = <<"t", "a">>
    /\ call.data.rows = << <<"foo", "1", "2">>, <<"1", "1", "2">> >>
    /\ ret.chartData = << [t |-> NumV(1), a |-> NumV(1)] >>

\* A call of the mapper for a line spec with at least two columns has returned.
LineCallDone ==
    /\ ret.fn = "prepareChartData"
    /\ call.chartParam.type = "line"
    /\ Len(call.chartParam.columns) >= 2

\* The value of the cell of row i under the column as a chart value: the
\* number of a numeral, the text of any other non-empty cell, NaN otherwise.
WideValue(i, column) ==
    IF WideNumeric(i, column) THEN WideNumber(WideCell(i, column)[1])
    ELSE IF WideCell(i, column) # <<>> /\ WideCell(i, column)[1] \notin {"", " "}
            THEN StrV(WideCell(i, column)[1])
            ELSE NaNV

\* C12: a line spec with at least two columns yields exactly one record per
\* row, in row order; the record holds the value of the x column and, for
\* each series column, that column's key if and only if the row's cell
\* parsed as a number.
C12_LineRecordPerRow ==
    LineCallDone =>
        LET columns == call.chartParam.columns
            xCol == columns[1]
            series == {columns[j] : j \in 2..Len(columns)}
        IN  /\ Len(ret.chartData) = Len(call.data.rows)
            /\ \A k \in DOMAIN call.data.rows :
                  /\ xCol \in DOMAIN ret.chartData[k]
                  /\ ret.chartData[k][xCol] = WideValue(k, xCol)
                  /\ \A c \in series :
                        /\ c \in DOMAIN ret.chartData[k] <=> WideNumeric(k, c)
                        /\ WideNumeric(k, c) =>
                              ret.chartData[k][c] = WideNumber(WideCell(k, c)[1])
                  /\ DOMAIN ret.chartData[k] \subseteq {xCol} \cup series

\* Under the spec (t, a, b) the row (foo, foo, 2) gave a record without the
\* key a and the row (1, 1, bar) one without the key b.
C12_Witness ==
    /\ LineCallDone
    /\ call.chartParam.columns = <<"t", "a", "b">>
    /\ call.data.rows = << <<"foo", "foo", "2">>, <<"1", "1", "bar">> >>
    /\ ret.chartData = << [t |-> StrV("foo"), b |-> NumV(2)],
                          [t |-> NumV(1), a |-> NumV(1)] >>

\* The chart type and column count are one of the combinations the mapper
\* and the renderer handle.
SupportedCombination ==
    LET type == call.chartParam.type
        n == Len(call.chartParam.columns)
    IN  \/ type = "bar" /\ n = 1
        \/ type = "scatter" /\ n = 2
        \/ type = "line" /\ n >= 2

\* A supported combination for which the table gives no record: a bar spec
\* with no counted row, a scatter spec with no row of two numbers, a line
\* spec over a table without rows.
NoRecordExpected ==
    LET type == call.chartParam.type
        columns == call.chartParam.columns
    IN  /\ SupportedCombination
        /\ \/ type = "bar" /\ CountedRows = {}
           \/ type = "scatter" /\ \A i \in DOMAIN call.data.rows :
                                     ~(WideNumeric(i, columns[1]) /\ WideNumeric(i, columns[2]))
           \/ type = "line" /\ call.data.rows = <<>>

Placeholders == {"placeholder: could not be generated", "placeholder: no valid data"}

\* C13: a chart type and column count other than (bar, 1), (scatter, 2) and
\* (line, 2 or more) gives an empty mapper result, and whenever the mapper
\* result is empty the renderer shows a placeholder and no chart.
C13_UnsupportedOrEmptyIsPlaceholder ==
    /\ (ret.fn = "prepareChartData" /\ ~SupportedCombination) => ret.chartData = <<>>
    /\ (ret.fn = "prepareChartData" /\ NoRecordExpected) => ret.chartData = <<>>
    /\ (ret.fn = "renderChart" /\ (~SupportedCombination \/ NoRecordExpected))
          => ret.rendered \in Placeholders
    /\ (ret.fn = "renderChart" /\ SupportedCombination /\ ~NoRecordExpected)
          => ret.rendered \notin Placeholders

\* A bar spec with two columns over a table with a row was rendered as the
\* placeholder.
C13_Witness ==
    /\ ret.fn = "renderChart"
    /\ call.chartParam = [type |-> "bar", columns |-> <<"t", "a">>]
    /\ call.data.rows = << <<"1", "1", "2">> >>
    /\ ret.rendered = "placeholder: no valid data"

\* The table has a row whose cell under the x column of the line spec is
\* present and trims to empty.
EmptyXCell(k) ==
    LET cell == WideCell(k, call.chartParam.columns[1])
    IN  cell # <<>> /\ cell[1] \in {"", " "}

\* C20 as stated: in the records of a line spec the x value of a cell that
\* trims to empty, or is no numeric literal, is the original string of the
\* cell, and the x value of any other cell is its number.
C20_EmptyKeptAsString ==
    LineCallDone =>
        LET xCol == call.chartParam.columns[1]
        IN  \A k \in DOMAIN call.data.rows :
               WideCell(k, xCol) # <<>> =>
                  ret.chartData[k][xCol] =
                     IF WideNumeric(k, xCol)
                        THEN WideNumber(WideCell(k, xCol)[1])
                        ELSE StrV(WideCell(k, xCol)[1])

\* C20 amended: the x value of a cell that is empty, blank or absent is NaN;
\* that of a non-empty cell that is no numeric literal is the original
\* string; that of a numeric literal is its number.
C20_EmptyIsNaN ==
    LineCallDone =>
        LET xCol == call.chartParam.columns[1]
        IN  \A k \in DOMAIN call.data.rows :
               /\ ret.chartData[k][xCol] = WideValue(k, xCol)
               /\ EmptyXCell(k) => ret.chartData[k][xCol] = NaNV

\* A line spec over the rows with x cells empty, foo and 1 gave the x values
\* NaN, "foo" and 1.
C20_Witness ==
    /\ LineCallDone
    /\ call.chartParam.columns = <<"t", "a">>
    /\ call.data.rows = << <<"", "1", "2">>, <<"foo", "1", "2">> >>
    /\ ret.chartData = << [t |-> NaNV, a |-> NumV(1)],
                          [t |-> StrV("foo"), a |-> NumV(1)] >>

\* The text fragments of a sequence of chunks joined first to last.
RECURSIVE FragmentsOf(_)
FragmentsOf(chunks) ==
    IF chunks = <<>> THEN ""
    ELSE (IF Head(chunks).text = <<>> THEN "" ELSE Head(chunks).text[1])
         \o FragmentsOf(Tail(chunks))

\* The number of chunks of a sequence that report usage.
WithUsage(chunks) == Cardinality({k \in DOMAIN chunks : chunks[k].usage # <<>>})

\* C14: a send returns the text fragments of all chunks joined in arrival
\* order and the usage counters summed over all chunks, and the assistant
\* message appended holds that text; when the stream throws at any point the
\* send fails: no text is returned and no assistant message is appended.
C14_StreamAggregation ==
    (ret.fn = "sendMessageToChat" /\ ret.pc # "loop") =>
        IF call.stream.failsAfter = -1
           THEN /\ ~ret.threw
                /\ ret.text = FragmentsOf(call.stream.chunks)
                /\ ret.usage = [inputTokens |-> WithUsage(call.stream.chunks),
                                outputTokens |-> 2 * WithUsage(call.stream.chunks)]
                /\ ret.pc = "handled" =>
                      /\ Len(chatMessages) = 2
                      /\ chatMessages[2].sender = "ai"
                      /\ chatMessages[2].text =
                            IF FragmentsOf(call.stream.chunks) = ""
                               THEN FALLBACK_TEXT
                               ELSE FragmentsOf(call.stream.chunks)
           ELSE /\ ret.threw
                /\ ret.text = ""
                /\ \A k \in DOMAIN chatMessages : chatMessages[k].sender # "ai"
                /\ ret.pc = "handled" => error = ERR_SEND /\ chatMessages = <<>>

\* A stream of the fragments a and b was returned as the text ab.
C14_Witness ==
    /\ ret.fn = "sendMessageToChat"
    /\ ret.pc = "handled"
    /\ ret.text = "ab"
    /\ ret.usage = [inputTokens |-> 1, outputTokens |-> 2]
    /\ Len(chatMessages) = 2 /\ chatMessages[2].text = "ab"

\* A stream that threw after the fragment a left no assistant message.
C14_WitnessThrow ==
    /\ ret.fn = "sendMessageToChat"
    /\ ret.pc = "handled"
    /\ call.stream.failsAfter = 1
    /\ call.stream.chunks[1].text = <<"a">>
    /\ chatMessages = <<>>

\* The j-th of the pieces of a text between the positions holding sep.
PieceOf(text, sep, j) ==
    LET ends == {i \in DOMAIN text : text[i] = sep} \cup {0, Len(text) + 1}
    IN  SubSeq(text, NthOf(ends, j) + 1, NthOf(ends, j + 1) - 1)

\* The number of pieces of a text between the positions holding sep.
PieceCount(text, sep) == Cardinality({i \in DOMAIN text : text[i] = sep}) + 1

\* A text from its first to its last character that is no white space.
Stripped(text) ==
    LET solid == {i \in DOMAIN text : text[i] \notin {" ", "\n"}}
    IN  IF solid = {} THEN <<>>
        ELSE SubSeq(text, CHOOSE i \in solid : \A j \in solid : i <= j,
                          CHOOSE i \in solid : \A j \in solid : j <= i)

\* The comma-separated fields of a line, each stripped.
StrippedFields(line) ==
    [j \in 1..PieceCount(line, ",") |-> Stripped(PieceOf(line, ",", j))]

\* The numbers of the lines of the text read that are not blank.
SolidLines ==
    {j \in 1..PieceCount(call.text, "\n") : Stripped(PieceOf(call.text, "\n", j)) # <<>>}

C15_SessionPerStoredResult ==
    [][(analysisResult' # analysisResult /\ analysisResult'.of # 0)
          => /\ currentChatSession' = analysisResult'.of
             /\ chatMessages' = <<>>]_vars

\* C16: a stored analysis result has all three list fields, and a response
\* that lacks one is stored by no step.
C16_StoredResultComplete ==
    analysisResult.of # 0 => analysisResult.shape = "full"

\* C17: the step that reads a file without a non-blank line sets the
\* empty-file error and clears the selection; it stores no table and starts
\* no analysis.
C17_BlankFileRejected ==
    [][\A r \in pendingReads \ pendingReads' :
          r.blank => /\ error' = ERR_EMPTY
                     /\ selectedFile' = 0
                     /\ csvData' = csvData
                     /\ pendingAnalyses' = pendingAnalyses
                     /\ isLoadingAnalysis' = isLoadingAnalysis
                     /\ analysisResult' = analysisResult]_vars

\* A blank file was read and rejected: the error is shown, no file is
\* selected, no table is held and no analysis is running.
C17_Witness ==
    /\ error = ERR_EMPTY
    /\ nFiles >= 1
    /\ selectedFile = 0
    /\ csvData = 0
    /\ pendingReads = {}
    /\ pendingAnalyses = {}

\* C18: the step that handles a failed synthesis or decoding starts no
\* source, clears the playing marker and leaves playback idle (no source is
\* playing or held), shows the error, and leaves the table, the analysis
\* result and the identity, order and text of every message as they were.
C18_FailedPlayLeavesIdle ==
    [][(\E m \in pendingPlays : PlayRejected(m))
          => /\ playingMessageId' = 0
             /\ currentAudioSource' = 0
             /\ \A src \in sources' : src.st # "playing"
             /\ error' = ERR_AUDIO
             /\ csvData' = csvData
             /\ analysisResult' = analysisResult
             /\ Len(chatMessages') = Len(chatMessages)
             /\ \A k \in DOMAIN chatMessages :
                   /\ chatMessages'[k].id = chatMessages[k].id
                   /\ chatMessages'[k].sender = chatMessages[k].sender
                   /\ chatMessages'[k].text = chatMessages[k].text]_vars

\* C21: at most one audio context is ever created; none exists before the
\* first play request, and from the first play request on the context held
\* is that one context, which no later step replaces.
C21_SingleAudioContext ==
    [][/\ nContexts' <= 1
       /\ nPlays' = 0 => outputAudioContext' = 0 /\ nContexts' = 0
       /\ nPlays' > 0 => outputAudioContext' = 1 /\ nContexts' = 1
       /\ outputAudioContext # 0 => outputAudioContext' = outputAudioContext]_vars

\* Two play requests were made and one context was created.
C21_Witness ==
    /\ nPlays = 2
    /\ nContexts = 1
    /\ outputAudioContext = 1

\* C22: whenever an analysis result is held, it is the result of the table
\* currently held, that table is the one of the most recently selected
\* file, and the chat session is the one created from that result.
C22_ResultOfLatestTable ==
    analysisResult.of # 0 =>
        /\ analysisResult.of = csvData
        /\ csvData = lastAccepted
        /\ currentChatSession = analysisResult.of

\* C23: a step that settles a send adds a message to the transcript only if
\* the user message of that send is still in the transcript.
C23_ReplyOnlyToPresentQuestion ==
    [][\A s \in pendingSends \ pendingSends' :
          Len(chatMessages') > Len(chatMessages)
             => \E k \in DOMAIN chatMessages : chatMessages[k].id = s.uid]_vars

\* C24: whenever a source is playing for a message, the playing marker is
\* that message and the held source reference is that message's source.
C24_PlayingSourceIsMarked ==
    \A s \in sources :
        s.st = "playing" => playingMessageId = s.msg /\ currentAudioSource = s.msg

\* C25: provided every request is settled, a state with isLoadingAnalysis
\* set is followed by one with it cleared, and a state with isSendingChat
\* set is followed by one with it cleared.
C25_BusyFlagsCleared ==
    /\ isLoadingAnalysis ~> ~isLoadingAnalysis
    /\ isSendingChat ~> ~isSendingChat

\* A send has failed and every request is settled: no flag is set.
C25_Witness ==
    /\ nSends >= 1
    /\ error = ERR_SEND
    /\ pendingSends = {}
    /\ pendingAnalyses = {}
    /\ ~isSendingChat
    /\ ~isLoadingAnalysis

\* C26: with sends made through the chat input, at most one send is in
\* flight, and isSendingChat is set whenever a send is in flight.
C26_OneSendInFlight ==
    /\ Cardinality(pendingSends) <= 1
    /\ pendingSends # {} => isSendingChat

\* A second send is in flight after the first was settled.
C26_Witness ==
    /\ nSends = 2
    /\ Cardinality(pendingSends) = 1
    /\ isSendingChat

====
